---- MODULE Spec2Model ----
(***************************************************************************)
(* A model of the custom shell of src/shell.c: the read loop of main, the  *)
(* two parsers (parse_input, parse_command), the built-in dispatcher       *)
(* (handle_builtin), the single-command executor (execute_command) and the *)
(* pipeline executor (execute_piped_commands), together with the child     *)
(* processes they fork and the descriptor tables of parent and children.   *)
(*                                                                         *)
(* A line is a sequence of symbols.  A symbol stands for one character of  *)
(* the line (" ", "|", "<", ">", "&", "!", a digit) or for a run of        *)
(* ordinary characters holding neither a space nor a '|' ("p", "exit").    *)
(* A token, a command and a file name are sequences of symbols; the empty  *)
(* sequence stands for the NULL pointer.                                   *)
(***************************************************************************)
EXTENDS Integers, Sequences, FiniteSets, TLC

VARIABLES
    pc,            \* where the interpreter is: prompt, line, builtin, exec,
                   \* waitpid, pipe_iter, pipe_wait, exited, crashed
    input,         \* main's input buffer, as fgets and the newline strip leave it
    history,       \* history[0 .. history_count-1]
    commands,      \* main's commands[] as parse_input fills it
    cmd,           \* what parse_command last produced (args, flags, files)
    depth,         \* active nested calls of handle_builtin below the first
    i,             \* execute_piped_commands: loop index
    prev_fd,       \* execute_piped_commands: prev_fd
    pipe_fd,       \* execute_piped_commands: pipe_fd[0], pipe_fd[1]
    remaining,     \* execute_piped_commands: wait(NULL) calls still to make
    wait_pid,      \* execute_command: the pid waitpid blocks on
    fds,           \* the interpreter's descriptor table: fd -> open file
    children,      \* every process forked so far, by pid (1, 2, ...)
    npipes,        \* pipes created so far (the next pipe's identity)
    line_pids,     \* pids forked while handling the current line
    line_pipes,    \* pipes created while handling the current line
    ran,           \* built-ins run while handling the current line
    errs           \* messages written to stderr while handling the current line

vars == <<pc, input, history, commands, cmd, depth, i, prev_fd, pipe_fd,
          remaining, wait_pid, fds, children, npipes, line_pids, line_pipes,
          ran, errs>>

----------------------------------------------------------------------------
(* Bounds of the model and constants of the program                        *)

\* Non-empty lines the interpreter reads in one run (each is stored in history).
MaxLines == 2

\* Symbols the interpreter reads in one run, over all its lines.
MaxInput == 13

\* Nested handle_builtin calls the stack holds before it overflows.
MaxDepth == 2

MAX_HISTORY == 100
EXIT_SUCCESS == 0
EXIT_FAILURE == 1
STDIN_FILENO == 0
STDOUT_FILENO == 1
STDERR_FILENO == 2

\* Exit statuses a launched program may report.
ProgramStatuses == {EXIT_SUCCESS, EXIT_FAILURE, 2}

NULL == <<>>

----------------------------------------------------------------------------
(* Open files and descriptor tables                                        *)

Tty == [kind |-> "tty", pipe |-> 0, path |-> NULL, mode |-> "rw"]
PipeEnd(id, mode) == [kind |-> "pipe", pipe |-> id, path |-> NULL, mode |-> mode]
File(path, mode) == [kind |-> "file", pipe |-> 0, path |-> path, mode |-> mode]

\* The lowest descriptor number not open in t (what open and pipe hand out).
LowestFree(t) == CHOOSE n \in 0..Cardinality(DOMAIN t) :
                    n \notin DOMAIN t /\ \A m \in 0..(n - 1) : m \in DOMAIN t

\* close(fd)
Close(t, fd) == [x \in DOMAIN t \ {fd} |-> t[x]]

\* open(...) succeeding: the file at the lowest free descriptor
Open(t, f) == [x \in DOMAIN t \cup {LowestFree(t)} |->
                 IF x = LowestFree(t) THEN f ELSE t[x]]

\* dup2(old, new); EBADF leaves the table alone
Dup2(t, old, new) ==
    IF old \notin DOMAIN t THEN t
    ELSE [x \in DOMAIN t \cup {new} |-> IF x = new THEN t[old] ELSE t[x]]

\* pipe(pipe_fd) succeeding: read end first, then write end
PipeRead(t) == LowestFree(t)
PipeWrite(t, id) == LowestFree(Open(t, PipeEnd(id, "r")))
Pipe(t, id) == Open(Open(t, PipeEnd(id, "r")), PipeEnd(id, "w"))

----------------------------------------------------------------------------
(* History: add_to_history                                                 *)

history_count == Len(history)

add_to_history(h, line) ==
    IF Len(h) < MAX_HISTORY
    THEN Append(h, line)
    ELSE Append(Tail(h), line)

\* The symbols of the first n lines stored in h, and of all of them.
RECURSIVE TypedUpTo(_, _)
TypedUpTo(h, n) == IF n = 0 THEN 0 ELSE Len(h[n]) + TypedUpTo(h, n - 1)

Typed(h) == TypedUpTo(h, Len(h))

----------------------------------------------------------------------------
(* Parsing: strtok, parse_input, parse_command, atoi                       *)

\* Where the tokens of s start: a symbol that is not delim, at the start of s
\* or right after a delim (strtok skips every run of delimiters).
TokenStarts(s, delim) ==
    {k \in 1..Len(s) : s[k] # delim /\ (k = 1 \/ s[k - 1] = delim)}

\* Where the token that starts at k ends: before the next delim, or with s.
TokenEnd(s, delim, k) ==
    CHOOSE m \in k..Len(s) :
        /\ \A j \in k..m : s[j] # delim
        /\ m = Len(s) \/ s[m + 1] = delim

\* The successive results of strtok(s, delim), strtok(NULL, delim), ... up
\* to the NULL that ends them; no token is empty.
strtok(s, delim) ==
    [n \in 1..Cardinality(TokenStarts(s, delim)) |->
        LET k == CHOOSE x \in TokenStarts(s, delim) :
                    Cardinality({y \in TokenStarts(s, delim) : y < x}) = n - 1
        IN  SubSeq(s, k, TokenEnd(s, delim, k))]

\* commands[0 .. command_count-1]
parse_input(line) == strtok(line, "|")

\* What parse_command has written after i tokens.  terminated says whether
\* args[i] = NULL was stored (the syntax-error returns skip it); error names
\* the message printed, if any.
ParseStart ==
    [args |-> <<>>, is_background |-> FALSE, input_file |-> NULL,
     output_file |-> NULL, terminated |-> FALSE, error |-> "none"]

RECURSIVE parse_loop(_, _, _)
parse_loop(toks, k, st) ==
    IF k > Len(toks) THEN [st EXCEPT !.terminated = TRUE]
    ELSE IF toks[k] = <<"&">>
    THEN parse_loop(toks, k + 1, [st EXCEPT !.is_background = TRUE])
    ELSE IF toks[k] = <<"<">>
    THEN IF k + 1 > Len(toks)
         THEN [st EXCEPT !.error = "expected input file after '<'"]
         ELSE parse_loop(toks, k + 2, [st EXCEPT !.input_file = toks[k + 1]])
    ELSE IF toks[k] = <<">">>
    THEN IF k + 1 > Len(toks)
         THEN [st EXCEPT !.error = "expected output file after '>'"]
         ELSE parse_loop(toks, k + 2, [st EXCEPT !.output_file = toks[k + 1]])
    ELSE parse_loop(toks, k + 1, [st EXCEPT !.args = Append(@, toks[k])])

parse_command(command) == parse_loop(strtok(command, " "), 1, ParseStart)

Digits == {"0", "1", "2", "3", "4", "5", "6", "7", "8", "9"}

DigitValue(c) ==
    CASE c = "0" -> 0 [] c = "1" -> 1 [] c = "2" -> 2 [] c = "3" -> 3
      [] c = "4" -> 4 [] c = "5" -> 5 [] c = "6" -> 6 [] c = "7" -> 7
      [] c = "8" -> 8 [] c = "9" -> 9

\* atoi on a token: the value of its leading digits, 0 when there are none.
RECURSIVE atoi_from(_, _, _)
atoi_from(s, k, acc) ==
    IF k > Len(s) \/ s[k] \notin Digits THEN acc
    ELSE atoi_from(s, k + 1, 10 * acc + DigitValue(s[k]))

atoi(s) == atoi_from(s, 1, 0)

----------------------------------------------------------------------------
(* The lines a user types                                                  *)

SP == " "

Lines ==
    { <<>>,                                            \* (just Enter)
      <<SP>>,                                          \* a space
      <<"&">>,                                         \* &
      <<"|">>,                                         \* |
      <<"p", SP, "a">>,                                \* p a
      <<"p", SP, "&">>,                                \* p &
      <<"p", SP, "<", SP, "f", SP, ">", SP, "g">>,     \* p < f > g
      <<"p", SP, "<">>,                                \* p <
      <<"p", SP, "|", SP, "q", SP, "|", SP, "r">>,     \* p | q | r
      <<"p", SP, "<", SP, "f", SP, "|", SP, "q", SP, ">", SP, "g">>,
                                                       \* p < f | q > g
      <<"p", SP, "|", SP, "q", SP, "&">>,              \* p | q &
      <<"p", SP, "|", SP, "q", SP, ">">>,              \* p | q >
      <<"cd", SP, "d">>,                               \* cd d
      <<"cd", SP, "<">>,                               \* cd <
      <<"cd", SP, "|", SP, "q">>,                      \* cd | q
      <<"history">>,                                   \* history
      <<"exit">>,                                      \* exit
      <<"!", "1">>,                                    \* !1
      <<"!", "9">> }                                   \* !9

----------------------------------------------------------------------------
(* Processes                                                               *)

NoFds == [x \in {} |-> Tty]

\* A process as fork leaves it: a copy of the interpreter's descriptor table
\* and of the locals the child branch reads.
Forked(kind, c, table, stage, count, prev, pfd) ==
    [state |-> "forked", kind |-> kind,
     argv |-> c.args, argv_terminated |-> c.terminated,
     input_file |-> c.input_file, output_file |-> c.output_file,
     is_background |-> c.is_background,
     stage |-> stage, count |-> count, prev_fd |-> prev, pipe_fd |-> pfd,
     fds |-> table, status |-> 0, cause |-> "none"]

Pids == DOMAIN children

\* Children the interpreter has not waited for yet.
Unwaited == {p \in Pids : children[p].state # "reaped"}
Zombies == {p \in Pids : children[p].state = "zombie"}

\* exit(status) in a child: every descriptor is closed with it.
Exited(ch, status, cause) ==
    [ch EXCEPT !.state = "zombie", !.status = status, !.cause = cause,
               !.fds = NoFds]

\* A child killed by a signal: its descriptors are closed with it and it
\* leaves no exit status.
Killed(ch) ==
    [ch EXCEPT !.state = "zombie", !.cause = "signal", !.fds = NoFds]

\* The descriptors of an execute_command child after lines 147-168, when both
\* opens (if any) succeed.
SingleSetup(ch) ==
    LET t1 == IF ch.input_file # NULL
              THEN Close(Dup2(Open(ch.fds, File(ch.input_file, "r")),
                              LowestFree(ch.fds), STDIN_FILENO),
                         LowestFree(ch.fds))
              ELSE ch.fds
    IN  IF ch.output_file # NULL
        THEN Close(Dup2(Open(t1, File(ch.output_file, "w")),
                        LowestFree(t1), STDOUT_FILENO),
                   LowestFree(t1))
        ELSE t1

\* StageSetup with line 214 reading the new pipe's read end instead of
\* prev_fd.
StageSetup_NewPipe(ch) ==
    LET t1 == IF ch.stage > 0
              THEN Close(Dup2(ch.fds, ch.pipe_fd[1], STDIN_FILENO), ch.prev_fd)
              ELSE ch.fds
        t2 == IF ch.stage < ch.count - 1
              THEN Close(Dup2(t1, ch.pipe_fd[2], STDOUT_FILENO), ch.pipe_fd[2])
              ELSE t1
    IN  Close(t2, ch.pipe_fd[1])

\* The descriptors of an execute_piped_commands child after lines 212-223.
StageSetup(ch) ==
    LET t1 == IF ch.stage > 0
              THEN Close(Dup2(ch.fds, ch.prev_fd, STDIN_FILENO), ch.prev_fd)
              ELSE ch.fds
        t2 == IF ch.stage < ch.count - 1
              THEN Close(Dup2(t1, ch.pipe_fd[2], STDOUT_FILENO), ch.pipe_fd[2])
              ELSE t1
    IN  Close(t2, ch.pipe_fd[1])

\* wait and waitpid are given NULL for the status: it is dropped with the
\* process's entry.
Reaped(ch) ==
    [ch EXCEPT !.state = "reaped", !.status = 0, !.cause = "none"]

\* The interpreter's process ends (exit, or killed by a signal): its
\* descriptors are closed and its children, adopted by init, are no longer
\* its own.
Orphan ==
    /\ fds' = NoFds
    /\ children' = <<>>

----------------------------------------------------------------------------
(* The initial state: main entered, nothing read, descriptors 0-2 open     *)

NoPipe == <<0, 0>>

Init ==
    /\ pc = "prompt"
    /\ input = <<>>
    /\ history = <<>>
    /\ commands = <<>>
    /\ cmd = ParseStart
    /\ depth = 0
    /\ i = 0
    /\ prev_fd = 0
    /\ pipe_fd = NoPipe
    /\ remaining = 0
    /\ wait_pid = 0
    /\ fds = [x \in {STDIN_FILENO, STDOUT_FILENO, STDERR_FILENO} |-> Tty]
    /\ children = <<>>
    /\ npipes = 0
    /\ line_pids = {}
    /\ line_pipes = {}
    /\ ran = {}
    /\ errs = {}

----------------------------------------------------------------------------
(* main: lines 306-339                                                     *)

Said(c) == IF c.error = "none" THEN {} ELSE {c.error}

\* Lines 308-309: the prompt, and fgets returning a line.  The locals of the
\* previous iteration's calls are dead here; the per-line records start anew.
ReadLine ==
    /\ pc = "prompt"
    /\ \E l \in Lines :
          /\ \/ l = <<>>
             \/ /\ history_count < MaxLines
                /\ Typed(history) + Len(l) <= MaxInput
          /\ input' = l
    /\ pc' = "line"
    /\ commands' = <<>>
    /\ cmd' = ParseStart
    /\ depth' = 0
    /\ i' = 0
    /\ prev_fd' = 0
    /\ pipe_fd' = NoPipe
    /\ remaining' = 0
    /\ wait_pid' = 0
    /\ line_pids' = {}
    /\ line_pipes' = {}
    /\ ran' = {}
    /\ errs' = {}
    /\ UNCHANGED <<history, fds, children, npipes>>

\* Lines 309-313: fgets fails (end of input), the interpreter exits.
EndOfInput ==
    /\ pc = "prompt"
    /\ pc' = "exited"
    /\ Orphan
    /\ UNCHANGED <<input, history, commands, cmd, depth, i, prev_fd, pipe_fd,
                   remaining, wait_pid, npipes, line_pids, line_pipes, ran,
                   errs>>

\* Lines 315-317: an empty line is skipped.
SkipEmpty ==
    /\ pc = "line"
    /\ input = <<>>
    /\ pc' = "prompt"
    /\ UNCHANGED <<input, history, commands, cmd, depth, i, prev_fd, pipe_fd,
                   remaining, wait_pid, fds, children, npipes, line_pids,
                   line_pipes, ran, errs>>

\* Lines 319-325: the line is stored and split at '|'; with more than one
\* command, execute_piped_commands is entered.
DispatchPipeline ==
    /\ pc = "line"
    /\ input # <<>>
    /\ Len(parse_input(input)) > 1
    /\ history' = add_to_history(history, input)
    /\ commands' = parse_input(input)
    /\ pc' = "pipe_iter"
    /\ UNCHANGED <<input, cmd, depth, i, prev_fd, pipe_fd, remaining, wait_pid,
                   fds, children, npipes, line_pids, line_pipes, ran, errs>>

\* Lines 319-323, 327-334: the line is stored and split at '|'; with one
\* command or none, commands[0] is parsed and handed to handle_builtin.  With
\* none, commands[0] is NULL and strtok continues at the end of the line:
\* parse_command finds no token.
DispatchSingle ==
    /\ pc = "line"
    /\ input # <<>>
    /\ Len(parse_input(input)) <= 1
    /\ history' = add_to_history(history, input)
    /\ commands' = parse_input(input)
    /\ cmd' = parse_command(IF commands' = <<>> THEN NULL ELSE commands'[1])
    /\ errs' = errs \cup Said(cmd')
    /\ pc' = "builtin"
    /\ UNCHANGED <<input, depth, i, prev_fd, pipe_fd, remaining, wait_pid, fds,
                   children, npipes, line_pids, line_pipes, ran>>

----------------------------------------------------------------------------
(* handle_builtin: lines 249-299.  A nested call (line 291) is one more    *)
(* pass through these actions with depth raised; whatever the nested call  *)
(* returns, its caller returns 1 after running execute_command when it was *)
(* 0 (lines 291-294), which is what main does too (lines 334-337).         *)

IsReplay(a) == a # <<>> /\ Head(a[1]) = "!"

\* Lines 251, 256-257: args[0] is NULL (no token) or was never written (a
\* syntax error before the first word).  strcmp on it is undefined: the
\* process is killed, or the comparisons come out unequal and the call
\* returns 0.
BuiltinNoWord ==
    /\ pc = "builtin"
    /\ cmd.args = <<>>
    /\ \/ pc' = "crashed" /\ Orphan
       \/ pc' = "exec" /\ UNCHANGED <<fds, children>>
    /\ UNCHANGED <<input, history, commands, cmd, depth, i, prev_fd, pipe_fd,
                   remaining, wait_pid, npipes, line_pids, line_pipes, ran,
                   errs>>

\* Lines 251-255
BuiltinExit ==
    /\ pc = "builtin"
    /\ cmd.args # <<>> /\ cmd.args[1] = <<"exit">>
    /\ ran' = ran \cup {"exit"}
    /\ pc' = "exited"
    /\ Orphan
    /\ UNCHANGED <<input, history, commands, cmd, depth, i, prev_fd, pipe_fd,
                   remaining, wait_pid, npipes, line_pids, line_pipes, errs>>

\* Lines 256-267.  chdir may fail.  After a syntax error args[1] may be
\* unwritten: reading it is undefined (killed, or read as some pointer).
BuiltinCd ==
    /\ pc = "builtin"
    /\ cmd.args # <<>> /\ cmd.args[1] = <<"cd">>
    /\ ran' = ran \cup {"cd"}
    /\ \/ /\ Len(cmd.args) = 1 /\ cmd.terminated
          /\ errs' = errs \cup {"cd: missing argument"}
          /\ pc' = "prompt"
       \/ /\ Len(cmd.args) = 1 /\ ~cmd.terminated
          /\ errs' = errs
          /\ pc' \in {"crashed", "prompt"}
       \/ /\ Len(cmd.args) > 1
          /\ \E ok \in BOOLEAN :
                errs' = IF ok THEN errs ELSE errs \cup {"chdir failed"}
          /\ pc' = "prompt"
    /\ UNCHANGED <<input, history, commands, cmd, depth, i, prev_fd, pipe_fd,
                   remaining, wait_pid, fds, children, npipes, line_pids,
                   line_pipes>>

\* Lines 268-272
BuiltinHistory ==
    /\ pc = "builtin"
    /\ cmd.args # <<>> /\ cmd.args[1] = <<"history">>
    /\ ran' = ran \cup {"history"}
    /\ pc' = "prompt"
    /\ UNCHANGED <<input, history, commands, cmd, depth, i, prev_fd, pipe_fd,
                   remaining, wait_pid, fds, children, npipes, line_pids,
                   line_pipes, errs>>

\* Lines 273-279, 298: !N with N out of range: a message, and return 0.
BuiltinReplayRange ==
    /\ pc = "builtin"
    /\ IsReplay(cmd.args)
    /\ LET index == atoi(Tail(cmd.args[1]))
       IN  index < 1 \/ index > history_count
    /\ errs' = errs \cup {"No such command in history"}
    /\ pc' = "exec"
    /\ UNCHANGED <<input, history, commands, cmd, depth, i, prev_fd, pipe_fd,
                   remaining, wait_pid, fds, children, npipes, line_pids,
                   line_pipes, ran>>

\* Lines 280-291: !N with N in range: the stored line replaces input, is
\* parsed as one command (no split at '|') and handed to handle_builtin again.
\* Each nested call takes a frame of more than MAX_INPUT_SIZE bytes; the
\* stack holds MaxDepth of them.
BuiltinReplay ==
    /\ pc = "builtin"
    /\ IsReplay(cmd.args)
    /\ LET index == atoi(Tail(cmd.args[1]))
       IN  /\ index >= 1 /\ index <= history_count
           /\ IF depth < MaxDepth
              THEN /\ input' = history[index]
                   /\ cmd' = parse_command(input')
                   /\ errs' = errs \cup Said(cmd')
                   /\ depth' = depth + 1
                   /\ ran' = ran \cup {"replay"}
                   /\ pc' = "builtin"
                   /\ UNCHANGED <<fds, children>>
              ELSE /\ pc' = "crashed"
                   /\ Orphan
                   /\ UNCHANGED <<input, cmd, errs, depth, ran>>
    /\ UNCHANGED <<history, commands, i, prev_fd, pipe_fd, remaining, wait_pid,
                   npipes, line_pids, line_pipes>>

\* Line 298: no built-in matched, return 0.
BuiltinNone ==
    /\ pc = "builtin"
    /\ cmd.args # <<>>
    /\ cmd.args[1] \notin {<<"exit">>, <<"cd">>, <<"history">>}
    /\ ~IsReplay(cmd.args)
    /\ pc' = "exec"
    /\ UNCHANGED <<input, history, commands, cmd, depth, i, prev_fd, pipe_fd,
                   remaining, wait_pid, fds, children, npipes, line_pids,
                   line_pipes, ran, errs>>

----------------------------------------------------------------------------
(* execute_command: lines 136-183                                          *)

NewPid == Len(children) + 1

\* Lines 138-144: fork fails, a message, return to main's loop.
ExecuteForkFails ==
    /\ pc = "exec"
    /\ errs' = errs \cup {"Fork failed"}
    /\ pc' = "prompt"
    /\ UNCHANGED <<input, history, commands, cmd, depth, i, prev_fd, pipe_fd,
                   remaining, wait_pid, fds, children, npipes, line_pids,
                   line_pipes, ran>>

\* ExecuteFork with the test of line 178 lost: the parent never waits.
ExecuteFork_NoWait ==
    /\ pc = "exec"
    /\ children' = Append(children,
                          Forked("single", cmd, fds, 0, 1, 0, NoPipe))
    /\ line_pids' = line_pids \cup {NewPid}
    /\ pc' = "prompt" /\ wait_pid' = wait_pid
    /\ UNCHANGED <<input, history, commands, cmd, depth, i, prev_fd, pipe_fd,
                   remaining, fds, npipes, line_pipes, ran, errs>>

\* Lines 138, 176-182: fork succeeds; the parent waits for this pid unless
\* the command is a background one.
ExecuteFork ==
    /\ pc = "exec"
    /\ children' = Append(children,
                          Forked("single", cmd, fds, 0, 1, 0, NoPipe))
    /\ line_pids' = line_pids \cup {NewPid}
    /\ IF cmd.is_background
       THEN pc' = "prompt" /\ wait_pid' = wait_pid
       ELSE pc' = "waitpid" /\ wait_pid' = NewPid
    /\ UNCHANGED <<input, history, commands, cmd, depth, i, prev_fd, pipe_fd,
                   remaining, fds, npipes, line_pipes, ran, errs>>

\* Line 180: waitpid(pid, NULL, 0) returns once that child has terminated.
WaitPid ==
    /\ pc = "waitpid"
    /\ children[wait_pid].state = "zombie"
    /\ children' = [children EXCEPT ![wait_pid] = Reaped(@)]
    /\ pc' = "prompt"
    /\ UNCHANGED <<input, history, commands, cmd, depth, i, prev_fd, pipe_fd,
                   remaining, wait_pid, fds, npipes, line_pids, line_pipes,
                   ran, errs>>

----------------------------------------------------------------------------
(* execute_piped_commands: lines 186-246                                   *)

command_count == Len(commands)

\* Lines 196-202: the stage is parsed, pipe fails, return.
PipeFails ==
    /\ pc = "pipe_iter"
    /\ i < command_count
    /\ cmd' = parse_command(commands[i + 1])
    /\ errs' = errs \cup Said(cmd') \cup {"Pipe failed"}
    /\ pc' = "prompt"
    /\ UNCHANGED <<input, history, commands, depth, i, prev_fd, pipe_fd,
                   remaining, wait_pid, fds, children, npipes, line_pids,
                   line_pipes, ran>>

\* Lines 196-209: the stage is parsed, the pipe is made, fork fails, return.
PipeForkFails ==
    /\ pc = "pipe_iter"
    /\ i < command_count
    /\ cmd' = parse_command(commands[i + 1])
    /\ errs' = errs \cup Said(cmd') \cup {"Fork failed"}
    /\ fds' = Pipe(fds, npipes + 1)
    /\ pipe_fd' = <<PipeRead(fds), PipeWrite(fds, npipes + 1)>>
    /\ npipes' = npipes + 1
    /\ line_pipes' = line_pipes \cup {npipes + 1}
    /\ pc' = "prompt"
    /\ UNCHANGED <<input, history, commands, depth, i, prev_fd, remaining,
                   wait_pid, children, line_pids, ran>>

\* PipeStage with the close of line 232 lost: the interpreter keeps the write
\* end of each pipe it makes.
PipeStage_KeepWrite ==
    /\ pc = "pipe_iter"
    /\ i < command_count
    /\ cmd' = parse_command(commands[i + 1])
    /\ errs' = errs \cup Said(cmd')
    /\ pipe_fd' = <<PipeRead(fds), PipeWrite(fds, npipes + 1)>>
    /\ children' = Append(children,
                          Forked("stage", cmd', Pipe(fds, npipes + 1), i,
                                 command_count, prev_fd, pipe_fd'))
    /\ fds' = IF i > 0
              THEN Close(Pipe(fds, npipes + 1), prev_fd)
              ELSE Pipe(fds, npipes + 1)
    /\ prev_fd' = pipe_fd'[1]
    /\ npipes' = npipes + 1
    /\ line_pipes' = line_pipes \cup {npipes + 1}
    /\ line_pids' = line_pids \cup {NewPid}
    /\ i' = i + 1
    /\ pc' = "pipe_iter"
    /\ UNCHANGED <<input, history, commands, depth, remaining, wait_pid, ran>>

\* Lines 196-237, one iteration: the stage is parsed, the pipe is made, the
\* child is forked with the table as it is then; the parent closes the write
\* end and the previous read end and keeps the new read end in prev_fd.
PipeStage ==
    /\ pc = "pipe_iter"
    /\ i < command_count
    /\ cmd' = parse_command(commands[i + 1])
    /\ errs' = errs \cup Said(cmd')
    /\ pipe_fd' = <<PipeRead(fds), PipeWrite(fds, npipes + 1)>>
    /\ children' = Append(children,
                          Forked("stage", cmd', Pipe(fds, npipes + 1), i,
                                 command_count, prev_fd, pipe_fd'))
    /\ fds' = IF i > 0
              THEN Close(Close(Pipe(fds, npipes + 1), pipe_fd'[2]), prev_fd)
              ELSE Close(Pipe(fds, npipes + 1), pipe_fd'[2])
    /\ prev_fd' = pipe_fd'[1]
    /\ npipes' = npipes + 1
    /\ line_pipes' = line_pipes \cup {npipes + 1}
    /\ line_pids' = line_pids \cup {NewPid}
    /\ i' = i + 1
    /\ pc' = "pipe_iter"
    /\ UNCHANGED <<input, history, commands, depth, remaining, wait_pid, ran>>

\* PipeSpawned with the close of line 240 lost.
PipeSpawned_NoClose ==
    /\ pc = "pipe_iter"
    /\ i = command_count
    /\ fds' = fds
    /\ remaining' = command_count
    /\ pc' = "pipe_wait"
    /\ UNCHANGED <<input, history, commands, cmd, depth, i, prev_fd, pipe_fd,
                   wait_pid, children, npipes, line_pids, line_pipes, ran,
                   errs>>

\* Lines 240-242: the loop is over; the last read end is closed and the
\* wait loop starts with command_count calls to make.
PipeSpawned ==
    /\ pc = "pipe_iter"
    /\ i = command_count
    /\ fds' = Close(fds, prev_fd)
    /\ remaining' = command_count
    /\ pc' = "pipe_wait"
    /\ UNCHANGED <<input, history, commands, cmd, depth, i, prev_fd, pipe_fd,
                   wait_pid, children, npipes, line_pids, line_pipes, ran,
                   errs>>

\* Line 244: wait(NULL) returns when any child of the interpreter has
\* terminated, and reaps that one; with no child at all it fails at once
\* (ECHILD).
WaitAny ==
    /\ pc = "pipe_wait"
    /\ IF Unwaited = {}
       THEN UNCHANGED children
       ELSE \E p \in Zombies :
               children' = [children EXCEPT ![p] = Reaped(@)]
    /\ remaining' = remaining - 1
    /\ pc' = IF remaining = 1 THEN "prompt" ELSE "pipe_wait"
    /\ UNCHANGED <<input, history, commands, cmd, depth, i, prev_fd, pipe_fd,
                   wait_pid, fds, npipes, line_pids, line_pipes, ran, errs>>

----------------------------------------------------------------------------
(* The children                                                            *)

\* Lines 147-174: a child of execute_command opens its files, binds them and
\* calls execvp; a failed open or a failed execvp ends it with EXIT_FAILURE.
\* execvp cannot succeed without a program name: with args[0] NULL the call
\* is undefined, it fails or the child is killed reading the name.
SingleChild(p) ==
    /\ p \in Pids
    /\ children[p].state = "forked" /\ children[p].kind = "single"
    /\ LET ch == children[p]
       IN  \/ /\ ch.input_file # NULL
              /\ children' = [children EXCEPT
                    ![p] = Exited(ch, EXIT_FAILURE, "open input")]
           \/ /\ ch.output_file # NULL
              /\ children' = [children EXCEPT
                    ![p] = Exited(ch, EXIT_FAILURE, "open output")]
           \/ children' = [children EXCEPT
                    ![p] = Exited(ch, EXIT_FAILURE, "exec")]
           \/ /\ ch.argv = <<>>
              /\ children' = [children EXCEPT ![p] = Killed(ch)]
           \/ /\ ch.argv # <<>>
              /\ children' = [children EXCEPT
                    ![p].state = "running", ![p].fds = SingleSetup(ch)]
    /\ UNCHANGED <<pc, input, history, commands, cmd, depth, i, prev_fd,
                   pipe_fd, remaining, wait_pid, fds, npipes, line_pids,
                   line_pipes, ran, errs>>

\* StageChild with the exit of line 228 lost: after a failed execvp the child
\* goes on, past line 230, as a copy of the interpreter.
StageChild_NoExit(p) ==
    /\ p \in Pids
    /\ children[p].state = "forked" /\ children[p].kind = "stage"
    /\ LET ch == children[p]
       IN  \/ children' = [children EXCEPT
                    ![p].state = "running", ![p].cause = "exec"]
           \/ /\ ch.argv = <<>>
              /\ children' = [children EXCEPT ![p] = Killed(ch)]
           \/ /\ ch.argv # <<>>
              /\ children' = [children EXCEPT
                    ![p].state = "running", ![p].fds = StageSetup(ch)]
    /\ UNCHANGED <<pc, input, history, commands, cmd, depth, i, prev_fd,
                   pipe_fd, remaining, wait_pid, fds, npipes, line_pids,
                   line_pipes, ran, errs>>

\* Lines 212-229: a child of execute_piped_commands binds its pipe ends and
\* calls execvp; a failed execvp ends it with EXIT_FAILURE.  With args[0]
\* NULL the call is undefined: it fails or the child is killed.
StageChild(p) ==
    /\ p \in Pids
    /\ children[p].state = "forked" /\ children[p].kind = "stage"
    /\ LET ch == children[p]
       IN  \/ children' = [children EXCEPT
                    ![p] = Exited(ch, EXIT_FAILURE, "exec")]
           \/ /\ ch.argv = <<>>
              /\ children' = [children EXCEPT ![p] = Killed(ch)]
           \/ /\ ch.argv # <<>>
              /\ children' = [children EXCEPT
                    ![p].state = "running", ![p].fds = StageSetup(ch)]
    /\ UNCHANGED <<pc, input, history, commands, cmd, depth, i, prev_fd,
                   pipe_fd, remaining, wait_pid, fds, npipes, line_pids,
                   line_pipes, ran, errs>>

\* The launched program ends with a status of its own.
ProgramExit(p) ==
    /\ p \in Pids
    /\ children[p].state = "running"
    /\ \E st \in ProgramStatuses :
          children' = [children EXCEPT ![p] = Exited(@, st, "program")]
    /\ UNCHANGED <<pc, input, history, commands, cmd, depth, i, prev_fd,
                   pipe_fd, remaining, wait_pid, fds, npipes, line_pids,
                   line_pipes, ran, errs>>

----------------------------------------------------------------------------
(* The specifications                                                      *)

MainStep ==
    \/ ReadLine
    \/ EndOfInput
    \/ SkipEmpty
    \/ DispatchPipeline
    \/ DispatchSingle
    \/ BuiltinNoWord
    \/ BuiltinExit
    \/ BuiltinCd
    \/ BuiltinHistory
    \/ BuiltinReplayRange
    \/ BuiltinReplay
    \/ BuiltinNone
    \/ ExecuteForkFails
    \/ ExecuteFork
    \/ WaitPid
    \/ PipeFails
    \/ PipeForkFails
    \/ PipeStage
    \/ PipeSpawned
    \/ WaitAny

ChildStep ==
    \E p \in 1..Len(children) :
        \/ SingleChild(p)
        \/ StageChild(p)
        \/ ProgramExit(p)

Next == MainStep \/ ChildStep

Spec == Init /\ [][Next]_vars

\* The interpreter is scheduled whenever it can run, and so is every child.
FairSpec == Spec /\ WF_vars(MainStep) /\ WF_vars(ChildStep)

\* The processes holding the write end of pipe x open, each with the
\* descriptor it holds it at; 0 stands for the interpreter.
WriteHolders(x) ==
    {<<0, fd>> : fd \in {d \in DOMAIN fds : fds[d] = PipeEnd(x, "w")}}
    \cup UNION {{<<p, fd>> : fd \in {d \in DOMAIN children[p].fds :
                                        children[p].fds[d] = PipeEnd(x, "w")}}
                   : p \in Pids}

\* The programs of a pipeline that behave as filters: the first stage ends
\* on its own, a later stage ends once it has read end-of-file, which its
\* standard input gives when no process holds the pipe's write end.  A
\* program launched by execute_command ends on its own.
ProgramExitOnEof(p) ==
    /\ p \in Pids
    /\ children[p].state = "running"
    /\ (children[p].kind = "stage" /\ children[p].stage > 0) =>
          /\ children[p].fds[STDIN_FILENO].kind = "pipe"
          /\ WriteHolders(children[p].fds[STDIN_FILENO].pipe) = {}
    /\ \E st \in ProgramStatuses :
          children' = [children EXCEPT ![p] = Exited(@, st, "program")]
    /\ UNCHANGED <<pc, input, history, commands, cmd, depth, i, prev_fd,
                   pipe_fd, remaining, wait_pid, fds, npipes, line_pids,
                   line_pipes, ran, errs>>

FilterStep ==
    \E p \in 1..Len(children) :
        \/ SingleChild(p)
        \/ StageChild(p)
        \/ ProgramExitOnEof(p)

FilterNext == MainStep \/ FilterStep

\* The shell running filters, every process scheduled whenever it can run.
FilterSpec ==
    Init /\ [][FilterNext]_vars /\ WF_vars(MainStep) /\ WF_vars(FilterStep)

----------------------------------------------------------------------------
(* What the properties speak of                                            *)

\* The line being handled: the one just read, or the one last stored.
Current ==
    IF input = <<>> THEN <<>>
    ELSE IF pc = "line" THEN input
    ELSE history[Len(history)]

\* The interpreter is back at the top of its loop after handling Current.
Returned == pc = "prompt" /\ input # <<>>

Stages(l) == parse_input(l)
LastStage(l) == parse_command(Stages(l)[Len(Stages(l))])

BuiltinName(tok) ==
    tok \in {<<"exit">>, <<"cd">>, <<"history">>} \/ Head(tok) = "!"

\* One stage, a program name that is no built-in, no redirection, no '&'.
SimpleLine(l) ==
    /\ Len(Stages(l)) = 1
    /\ \A k \in 1..Len(l) : l[k] # "|"
    /\ LastStage(l).error = "none"
    /\ LastStage(l).args # <<>>
    /\ ~BuiltinName(LastStage(l).args[1])
    /\ ~LastStage(l).is_background
    /\ LastStage(l).input_file = NULL
    /\ LastStage(l).output_file = NULL

\* Two stages or more, the last one without '&'.
ForegroundPipeline(l) ==
    /\ Len(Stages(l)) > 1
    /\ ~LastStage(l).is_background

\* The last stage carries '&'.
BackgroundLine(l) ==
    /\ Stages(l) # <<>>
    /\ LastStage(l).is_background

\* Some stage ends in '<' or '>' with no file name after it.
DanglingRedirect(l) ==
    \E k \in 1..Len(Stages(l)) :
        LET toks == strtok(Stages(l)[k], " ")
        IN  toks # <<>> /\ toks[Len(toks)] \in {<<"<">>, <<">">>}

\* Not empty, and nothing but spaces and the metacharacters '&' and '|'.
Blank(l) ==
    /\ l # <<>>
    /\ \A k \in 1..Len(l) : l[k] \in {SP, "&", "|"}

Terminated(p) == children[p].state \in {"zombie", "reaped"}

RunningStage(p) ==
    /\ p \in Pids
    /\ children[p].kind = "stage"
    /\ children[p].state = "running"

\* q runs the stage right after p's in the same pipeline.
NextStage(p, q) ==
    /\ q = p + 1
    /\ RunningStage(p) /\ RunningStage(q)
    /\ children[q].stage = children[p].stage + 1

PidRange == 1..(3 * MaxLines)

----------------------------------------------------------------------------
(* C1 *)

\* C1, as claimed: when the interpreter is back at its loop after a simple
\* line (one stage, no redirection, no '&', not a built-in), it has forked
\* exactly one child for the line, whose argv is the line's words in order,
\* and that child has terminated.
C1_OneChildWaited ==
    (Returned /\ SimpleLine(Current)) =>
        /\ Cardinality(line_pids) = 1
        /\ \A p \in line_pids :
              /\ children[p].argv = strtok(Current, " ")
              /\ children[p].argv_terminated
              /\ Terminated(p)

\* C1, amended: the same, provided fork did not fail for the line; when it
\* failed, no child was forked for the line.
C1_OneChildWaitedIfForked ==
    (Returned /\ SimpleLine(Current)) =>
        IF "Fork failed" \in errs
        THEN line_pids = {}
        ELSE /\ Cardinality(line_pids) = 1
             /\ \A p \in line_pids :
                   /\ children[p].argv = strtok(Current, " ")
                   /\ children[p].argv_terminated
                   /\ Terminated(p)

C1_Witness ==
    /\ Returned /\ SimpleLine(Current)
    /\ Len(strtok(Current, " ")) = 2
    /\ \E p \in line_pids : children[p].state = "reaped"

----------------------------------------------------------------------------
(* C2 *)

\* C2, as claimed: when every stage of a pipeline of N stages has been
\* spawned, N-1 pipes have been created for it.
C2_OnePipePerPair ==
    pc = "pipe_wait" => Cardinality(line_pipes) = command_count - 1

----------------------------------------------------------------------------
(* C3 *)

\* C3: of the stages of a pipeline that have been launched, the first has
\* no pipe on its standard input, the last has none on its standard output,
\* every other standard input is a pipe's read end and every other standard
\* output a pipe's write end, and between adjacent stages it is the same pipe.
C3_Wiring ==
    \A p \in Pids : RunningStage(p) =>
        LET ch == children[p]
        IN  /\ IF ch.stage = 0
               THEN ch.fds[STDIN_FILENO].kind # "pipe"
               ELSE /\ ch.fds[STDIN_FILENO].kind = "pipe"
                    /\ ch.fds[STDIN_FILENO].mode = "r"
            /\ IF ch.stage = ch.count - 1
               THEN ch.fds[STDOUT_FILENO].kind # "pipe"
               ELSE /\ ch.fds[STDOUT_FILENO].kind = "pipe"
                    /\ ch.fds[STDOUT_FILENO].mode = "w"
            /\ \A q \in Pids : NextStage(p, q) =>
                  children[q].fds[STDIN_FILENO].pipe
                      = ch.fds[STDOUT_FILENO].pipe

C3_Witness ==
    \E p, q \in Pids :
        /\ NextStage(p, q)
        /\ children[p].stage = 1
        /\ children[p].count = 3

----------------------------------------------------------------------------
(* C4 *)

\* C4, as claimed: a launched first stage that was given an input file has
\* that file as its standard input, and a launched last stage that was given
\* an output file has that file as its standard output.
C4_RedirectionAtEnds ==
    \A p \in Pids : RunningStage(p) =>
        LET ch == children[p]
        IN  /\ (ch.stage = 0 /\ ch.input_file # NULL) =>
                  ch.fds[STDIN_FILENO] = File(ch.input_file, "r")
            /\ (ch.stage = ch.count - 1 /\ ch.output_file # NULL) =>
                  ch.fds[STDOUT_FILENO] = File(ch.output_file, "w")

----------------------------------------------------------------------------
(* C5 *)

\* C5, as claimed: when the interpreter is back at its loop after a
\* foreground pipeline all of whose stages were spawned, every one of these
\* stages has terminated.
C5_AllStagesWaited ==
    (/\ Returned
     /\ ForegroundPipeline(Current)
     /\ Cardinality(line_pids) = Len(Stages(Current))) =>
        \A p \in line_pids : Terminated(p)

----------------------------------------------------------------------------
(* C6 *)

\* C6, as claimed: while handling a line whose last stage carries '&', the
\* interpreter never blocks in waitpid or wait.
C6_BackgroundNeverWaits ==
    BackgroundLine(Current) => pc \notin {"waitpid", "pipe_wait"}

----------------------------------------------------------------------------
(* C7 *)

BackgroundZombie(p) ==
    /\ p \in Pids
    /\ children[p].is_background
    /\ children[p].state = "zombie"

\* C7, as claimed: a terminated child of a background command is reaped in
\* the end, unless the interpreter itself ends first.
C7_BackgroundReaped ==
    \A p \in PidRange :
        BackgroundZombie(p) ~>
            (~BackgroundZombie(p) \/ pc \in {"exited", "crashed"})

----------------------------------------------------------------------------
(* C8 *)

\* C8, as claimed: for a line with a stage ending in '<' or '>', no child
\* is forked, and once a command of the line has been parsed the syntax
\* error has been reported.
C8_NoChildOnSyntaxError ==
    DanglingRedirect(Current) =>
        /\ line_pids = {}
        /\ Returned => \E e \in errs : e \in
              {"expected input file after '<'",
               "expected output file after '>'"}

----------------------------------------------------------------------------
(* C9 *)

FailedLaunch(p) == children[p].state = "zombie" /\ children[p].cause = "exec"

OtherFailure(p) ==
    /\ children[p].state = "zombie"
    /\ \/ children[p].cause \in {"open input", "open output"}
       \/ children[p].cause = "program" /\ children[p].status # EXIT_SUCCESS

\* C9, as claimed: the status of a child whose execvp failed differs from
\* the status of any child that ran and ended non-zero, and of any child that
\* could not open its redirection file.
C9_DistinguishedStatus ==
    \A p, q \in Pids :
        (FailedLaunch(p) /\ OtherFailure(q)) =>
            children[p].status # children[q].status

----------------------------------------------------------------------------
(* C10 *)

\* C10, as claimed: a line of nothing but spaces and metacharacters runs no
\* built-in, forks no child, reports nothing and does not crash the
\* interpreter.
C10_BlankLineNoOp ==
    Blank(Current) =>
        /\ ran = {}
        /\ line_pids = {}
        /\ errs = {}
        /\ pc # "crashed"

----------------------------------------------------------------------------
(* C11 *)

\* The argument vectors main hands to an executor when l is typed: one for
\* each command parse_input finds, or the empty one when it finds none.
TypedArgvs(l) ==
    IF Stages(l) = <<>>
    THEN {<<>>}
    ELSE {parse_command(Stages(l)[k]).args : k \in 1..Len(Stages(l))}

NoLaunchFailure == errs \cap {"Fork failed", "Pipe failed"} = {}

\* C11, as claimed: while a stored line is replayed by !N (input holds the
\* stored line), every child forked is one that typing the line forks: it
\* comes from the executor main picks for the line and its argv is that of
\* one of the line's stages; and back at the loop, with no fork or pipe
\* failure, a stored line of several stages has got one child for each.
C11_ReplayAsTyped ==
    "replay" \in ran =>
        /\ \A p \in line_pids \cap Pids :
              /\ children[p].kind =
                    IF Len(Stages(input)) > 1 THEN "stage" ELSE "single"
              /\ children[p].argv \in TypedArgvs(input)
        /\ (Returned /\ NoLaunchFailure /\ Len(Stages(input)) > 1) =>
              Cardinality(line_pids) = Len(Stages(input))

----------------------------------------------------------------------------
(* C12 *)

\* C12, as claimed: while the line being handled (typed, or re-submitted by
\* !N) has more than one stage, no built-in other than the replay itself has
\* run in the interpreter; and execute_command is entered only with a first
\* word that handle_builtin does not handle.
C12_NoBuiltinInPipeline ==
    /\ Len(Stages(input)) > 1 => ran \subseteq {"replay"}
    /\ pc = "exec" =>
          \/ cmd.args = <<>>
          \/ cmd.args[1] \notin {<<"exit">>, <<"cd">>, <<"history">>}

----------------------------------------------------------------------------
(* C13 *)

\* In this step execvp returns -1 in child p.
ExecFails(p) ==
    /\ p \in Pids
    /\ p \in DOMAIN children'
    /\ children[p].state = "forked"
    /\ children'[p].cause = "exec"

\* C13: the step in which execvp fails in a child, of execute_command or of
\* execute_piped_commands, leaves that child terminated with a non-zero
\* exit status and every descriptor closed; the step forks nothing, reaps
\* nothing and moves the interpreter nowhere; and a child whose execvp has
\* failed is never found running.
C13_ExecFailureEnds ==
    [][/\ \A p \in PidRange : ExecFails(p) =>
              /\ children'[p].state = "zombie"
              /\ children'[p].status = EXIT_FAILURE
              /\ children'[p].status # EXIT_SUCCESS
              /\ children'[p].fds = NoFds
              /\ \A q \in Pids \ {p} : children'[q] = children[q]
              /\ Len(children') = Len(children)
              /\ UNCHANGED <<pc, input, history, commands, cmd, depth, i,
                             prev_fd, pipe_fd, remaining, wait_pid, fds,
                             npipes, line_pids, line_pipes, ran, errs>>
       /\ \A p \in Pids : children[p].cause = "exec" =>
              children[p].state = "zombie"]_vars

C13_Witness ==
    \E p, q \in Pids :
        /\ children[p].kind = "single" /\ FailedLaunch(p)
        /\ children[q].kind = "stage" /\ FailedLaunch(q)
        /\ children[q].stage > 0

----------------------------------------------------------------------------
(* C14 *)

\* The descriptors the interpreter starts with.
StandardFds == [x \in {STDIN_FILENO, STDOUT_FILENO, STDERR_FILENO} |-> Tty]

\* The interpreter's descriptors that are ends of the current line's pipes,
\* and those that are ends of earlier lines' pipes.
HeldOfLine ==
    {fd \in DOMAIN fds : fds[fd].kind = "pipe" /\ fds[fd].pipe \in line_pipes}
HeldFromBefore ==
    {fd \in DOMAIN fds :
        fds[fd].kind = "pipe" /\ fds[fd].pipe \notin line_pipes}

\* C14: when execute_piped_commands starts waiting (every stage spawned, no
\* pipe or fork failure), the interpreter holds no end of a pipe made for
\* this pipeline; and unless an earlier line left it a pipe end, its
\* descriptors are those it started with.
C14_ParentClosedPipes ==
    pc = "pipe_wait" =>
        /\ HeldOfLine = {}
        /\ HeldFromBefore = {} => fds = StandardFds

C14_Witness ==
    /\ pc = "pipe_wait"
    /\ Cardinality(line_pipes) = 2
    /\ npipes = 4
    /\ fds = StandardFds

----------------------------------------------------------------------------
(* C15 *)

\* C15, as claimed: a stage that has called execvp holds no pipe end at any
\* descriptor other than its standard input and standard output.
C15_StageHoldsOnlyItsEnds ==
    \A p \in Pids : RunningStage(p) =>
        \A fd \in DOMAIN children[p].fds \ {STDIN_FILENO, STDOUT_FILENO} :
            children[p].fds[fd].kind # "pipe"

----------------------------------------------------------------------------
(* C16 *)

\* execute_piped_commands has returned to main's loop from line 201 or 208.
PipelineAborted ==
    /\ pc = "prompt"
    /\ command_count > 1
    /\ ~NoLaunchFailure

\* C16, as claimed: when a pipeline was given up because pipe or fork
\* failed, every stage forked for it before the failure has been waited for
\* by the time the interpreter is back at its loop.
C16_AbortedPipelineWaited ==
    PipelineAborted => \A p \in line_pids : children[p].state = "reaped"

----------------------------------------------------------------------------
(* C17 *)

\* C17, as claimed: when a pipeline was given up because pipe or fork
\* failed, the interpreter is back at its loop holding no end of a pipe made
\* for that pipeline.
C17_AbortedPipelineClosed ==
    PipelineAborted => HeldOfLine = {}

----------------------------------------------------------------------------
(* C18 *)

\* C18, as claimed: the nested calls of handle_builtin that replaying a
\* line sets off come to an end before the stack is used up: the interpreter
\* is never killed in the replay branch with MaxDepth nested calls active.
C18_ReplayBounded ==
    ~(pc = "crashed" /\ IsReplay(cmd.args) /\ depth = MaxDepth)

----------------------------------------------------------------------------
(* C20 *)

\* C20, as claimed: once "No such command in history" has been reported for
\* a line, no child is forked for that line.
C20_OutOfRangeNoChild ==
    "No such command in history" \in errs => line_pids = {}

----------------------------------------------------------------------------
(* C19 *)

\* q runs a stage after the first and the stage before it, p, has finished
\* its descriptor setup (it runs, or it has ended).
FedBy(q, p) ==
    /\ RunningStage(q)
    /\ children[q].stage > 0
    /\ p = q - 1
    /\ p \in Pids
    /\ children[p].kind = "stage"
    /\ children[p].stage = children[q].stage - 1
    /\ children[p].state # "forked"

\* The write end of the pipe on q's standard input is held by the stage
\* before it, p, at its standard output, while p runs, and by no process at
\* all once p has ended.
OnlyWriter(q, p) ==
    WriteHolders(children[q].fds[STDIN_FILENO].pipe) =
        IF children[p].state = "running" THEN {<<p, STDOUT_FILENO>>} ELSE {}

\* execute_piped_commands waits for its stages and the interpreter has no
\* other child to wait for.
WaitingForStagesOnly ==
    /\ pc = "pipe_wait"
    /\ remaining = command_count
    /\ Unwaited \subseteq line_pids

\* C19: between adjacent stages that have finished their descriptor setup,
\* the pipe's write end is held by the earlier stage only; and when the
\* programs are filters and the interpreter has no other child, a pipeline
\* whose stages have all been spawned ends: every stage is reaped and
\* execute_piped_commands returns to main's loop.
C19_PipelineDrains ==
    /\ [](\A q, p \in Pids : FedBy(q, p) => OnlyWriter(q, p))
    /\ WaitingForStagesOnly ~>
          (pc = "prompt" /\ \A p \in line_pids : children[p].state = "reaped")

C19_Witness ==
    /\ pc = "pipe_wait"
    /\ command_count = 3
    /\ Unwaited = line_pids
    /\ \A p \in line_pids : children[p].state = "running"
    /\ \E q, p \in Pids : FedBy(q, p) /\ children[q].stage = 2

====
